---------------------------- MODULE Spec2Model ----------------------------
(***************************************************************************)
(* A model of src/index.js: the script that bootstraps depot_tools,        *)
(* fetches the V8 sources, builds the v8_monolith static library for a     *)
(* matrix of (cpu, build type) cells and packages a release archive.       *)
(*                                                                         *)
(* Strings that the script computes with (path names, target_cpu, output   *)
(* directories) are sequences of one-character strings, so that replace,   *)
(* concatenation and path joining are computed and not assumed.  Path      *)
(* names are kept relative to ROOT_DIR and joined with "/".                *)
(***************************************************************************)
EXTENDS Integers, Sequences, FiniteSets

----------------------------------------------------------------------------
(* String literals of the source. *)

THIRD_PARTY ==
    <<"t", "h", "i", "r", "d", "_", "p", "a", "r", "t", "y">>
V8 ==
    <<"v", "8">>
BUILD ==
    <<"b", "u", "i", "l", "d">>
DEPOT_TOOLS ==
    <<"d", "e", "p", "o", "t", "_", "t", "o", "o", "l", "s">>
S_out_gn ==
    <<"o", "u", "t", ".", "g", "n">>
S_include ==
    <<"i", "n", "c", "l", "u", "d", "e">>
S_releases ==
    <<"r", "e", "l", "e", "a", "s", "e", "s">>
S_obj ==
    <<"o", "b", "j">>
S_zip ==
    <<"d", "e", "p", "o", "t", "_", "t", "o", "o", "l", "s", ".", "z", "i", "p">>
S_lib_win ==
    <<"v", "8", "_", "m", "o", "n", "o", "l", "i", "t", "h", ".", "l", "i", "b">>
S_lib_unix ==
    <<"l", "i", "b", "v", "8", "_", "m", "o", "n", "o", "l", "i", "t", "h", ".", "a">>
S_debug ==
    <<"d", "e", "b", "u", "g">>
S_release ==
    <<"r", "e", "l", "e", "a", "s", "e">>
S_Debug ==
    <<"D", "e", "b", "u", "g">>
S_Release ==
    <<"R", "e", "l", "e", "a", "s", "e">>
S_x64 ==
    <<"x", "6", "4">>
S_x86 ==
    <<"x", "8", "6">>
S_win32 ==
    <<"w", "i", "n", "3", "2">>
S_linux ==
    <<"l", "i", "n", "u", "x">>
S_darwin ==
    <<"d", "a", "r", "w", "i", "n">>
(* "clone" *)
S_clone ==
    <<"c", "l", "o", "n", "e">>
(* "https://chromium.googlesource.com/chromium/tools/depot_tools.git" *)
S_depot_tools_git ==
    <<"h", "t", "t", "p", "s", ":", "/", "/", "c", "h", "r", "o", "m",
      "i", "u", "m", ".", "g", "o", "o", "g", "l", "e", "s", "o", "u",
      "r", "c", "e", ".", "c", "o", "m", "/", "c", "h", "r", "o", "m",
      "i", "u", "m", "/", "t", "o", "o", "l", "s", "/", "d", "e", "p",
      "o", "t", "_", "t", "o", "o", "l", "s", ".", "g", "i", "t">>
(* "sync" *)
S_sync ==
    <<"s", "y", "n", "c">>
(* "gen" *)
S_gen ==
    <<"g", "e", "n">>
(* "-C" *)
S_C ==
    <<"-", "C">>
(* "v8_monolith" *)
S_v8_monolith ==
    <<"v", "8", "_", "m", "o", "n", "o", "l", "i", "t", "h">>
(* "true", "false": a boolean in a template literal *)
S_true ==
    <<"t", "r", "u", "e">>
S_false ==
    <<"f", "a", "l", "s", "e">>
(* `--args="` *)
S_args_open ==
    <<"-", "-", "a", "r", "g", "s", "=", "\"">>
QUOTE ==
    "\""
SLASH ==
    "/"

(* os.platform() of the three hosts the script distinguishes. *)
Platforms ==
    {S_win32, S_linux, S_darwin}

----------------------------------------------------------------------------
(* JavaScript values that may be undefined, and path.resolve. *)

Val(s) ==
    [def |-> TRUE, v |-> s]

Undefined ==
    [def |-> FALSE, v |-> <<>>]

(* obj[k] of a JavaScript object: undefined when the object has no such key. *)
Prop(obj, k) ==
    IF k \in DOMAIN obj THEN Val(obj[k]) ELSE Undefined

RECURSIVE JoinSegs(_)
(* The non-empty segments joined by the separator. *)
JoinSegs(segs) ==
    IF segs = <<>> THEN <<>>
    ELSE LET rest == JoinSegs(Tail(segs))
         IN  IF Head(segs) = <<>> THEN rest
             ELSE IF rest = <<>> THEN Head(segs)
             ELSE Head(segs) \o <<SLASH>> \o rest

(* resolve(...p) = path.resolve(ROOT_DIR, ...p) for relative segments:     *)
(* path.resolve scans its arguments from the right up to the first         *)
(* absolute one (ROOT_DIR) and throws a TypeError on a segment that is no  *)
(* string.  The result is relative to ROOT_DIR.                            *)
resolve(segs) ==
    IF \E i \in 1..Len(segs) : ~segs[i].def
    THEN [ok |-> FALSE, path |-> <<>>]
    ELSE [ok |-> TRUE, path |-> JoinSegs([i \in 1..Len(segs) |-> segs[i].v])]

(* A resolve of string literals and of results of resolve. *)
P(segs) ==
    resolve([i \in 1..Len(segs) |-> Val(segs[i])]).path

paths ==
    [thirdParty    |-> P(<<THIRD_PARTY>>),
     depot_tools   |-> P(<<THIRD_PARTY, DEPOT_TOOLS>>),
     v8            |-> P(<<THIRD_PARTY, V8>>),
     v8Src         |-> P(<<THIRD_PARTY, V8, V8>>),
     v8Out         |-> P(<<THIRD_PARTY, V8, V8, S_out_gn>>),
     build         |-> P(<<BUILD>>),
     buildIncludes |-> P(<<BUILD, S_include>>),
     releases      |-> P(<<S_releases>>)]

(* path.join(paths.v8Src, "include"), the source of the header copy. *)
v8SrcInclude ==
    P(<<paths.v8Src, S_include>>)

(* path.resolve(paths.thirdParty, "depot_tools.zip") *)
zipPath ==
    P(<<paths.thirdParty, S_zip>>)

----------------------------------------------------------------------------
(* genLibPaths: the directories mkdirp creates, parents first. *)

oss ==
    <<S_win32, S_linux, S_darwin>>
platforms ==
    <<S_x86, S_x64>>
buildTypes ==
    <<S_Release, S_Debug>>

Range(s) ==
    {s[i] : i \in 1..Len(s)}

LayoutDirs ==
    {paths.build}
    \cup {P(<<paths.build, o>>) : o \in Range(oss)}
    \cup {P(<<paths.build, o, p>>) : o \in Range(oss), p \in Range(platforms)}
    \cup {P(<<paths.build, o, p, t>>) :
             o \in Range(oss), p \in Range(platforms), t \in Range(buildTypes)}

(* mkdirp(...dirs): creates the directory unless it exists. *)
mkdirp(fsx, dir) ==
    IF dir \in fsx THEN fsx ELSE fsx \cup {dir}

RECURSIVE Flatten(_)
(* The sequences of a sequence, one after the other. *)
Flatten(ss) ==
    IF ss = <<>> THEN <<>> ELSE Head(ss) \o Flatten(Tail(ss))

(* The directories in the order the loops of genLibPaths pass them to      *)
(* mkdirp, lines 59-71.                                                    *)
LayoutOrder ==
    <<paths.build>>
    \o Flatten([o \in 1..Len(oss) |->
          <<P(<<paths.build, oss[o]>>)>>
          \o Flatten([p \in 1..Len(platforms) |->
                <<P(<<paths.build, oss[o], platforms[p]>>)>>
                \o [t \in 1..Len(buildTypes) |->
                       P(<<paths.build, oss[o], platforms[p], buildTypes[t]>>)]])])

(* The directory a path lies in; <<>> is ROOT_DIR. *)
dirname(path) ==
    LET at == {i \in 1..Len(path) : path[i] = SLASH}
    IN  IF at = {} THEN <<>>
        ELSE SubSeq(path, 1, (CHOOSE i \in at : \A j \in at : i >= j) - 1)

(* fs.mkdirSync(dir) without the recursive option: it throws when the path *)
(* exists and when the directory it lies in does not.  st holds the files, *)
(* the directories made so far and the error thrown.                       *)
mkdirSync(st, dir) ==
    IF dir \in st.fs THEN [st EXCEPT !.err = "EEXIST"]
    ELSE IF dirname(dir) # <<>> /\ dirname(dir) \notin st.fs
    THEN [st EXCEPT !.err = "ENOENT"]
    ELSE [st EXCEPT !.fs = st.fs \cup {dir}, !.made = Append(st.made, dir)]

(* As MkdirpSkips, had mkdirp called mkdirSync without the test. *)
MkdirpSkipsNever(fsx, dir) ==
    FALSE

(* fs.existsSync(dir) of line 94: mkdirSync is not called. *)
MkdirpSkips(fsx, dir) ==
    dir \in fsx

RECURSIVE MkdirpAll(_, _)
(* The mkdirp calls of genLibPaths in order; a throw ends them. *)
MkdirpAll(st, dirs) ==
    IF dirs = <<>> \/ st.err # "none" THEN st
    ELSE MkdirpAll(IF MkdirpSkips(st.fs, Head(dirs)) THEN st
                   ELSE mkdirSync(st, Head(dirs)),
                   Tail(dirs))

(* genLibPaths() on the files fsx, lines 53-72 *)
GenLibPathsOn(fsx) ==
    MkdirpAll([fs |-> fsx, made |-> <<>>, err |-> "none"], LayoutOrder)

----------------------------------------------------------------------------
(* Pure helpers of the build. *)

(* String.prototype.replace(/\"/g, ""): every double quote removed. *)
StripQuotes(s) ==
    SelectSeq(s, LAMBDA c : c # QUOTE)

Quoted(s) ==
    <<QUOTE>> \o s \o <<QUOTE>>

(* As getV8OutPath, had the replace been written without the g flag: only  *)
(* the first double quote is removed.                                      *)
getV8OutPathFirstQuote(a) ==
    LET s == a.target_cpu
        q == {i \in 1..Len(s) : s[i] = QUOTE}
        first == IF q = {} THEN 0 ELSE CHOOSE i \in q : \A j \in q : i <= j
        t == IF q = {} THEN s
             ELSE SubSeq(s, 1, first - 1) \o SubSeq(s, first + 1, Len(s))
    IN  S_out_gn \o <<SLASH>> \o t \o <<".">>
            \o (IF a.is_debug THEN S_debug ELSE S_release)

getV8OutPath(a) ==
    S_out_gn \o <<SLASH>> \o StripQuotes(a.target_cpu) \o <<".">>
        \o (IF a.is_debug THEN S_debug ELSE S_release)

libName(h) ==
    IF h = S_win32 THEN S_lib_win ELSE S_lib_unix

(* path.resolve(paths.v8Src, outPath, "obj", libName) *)
buildPath(h, outPath) ==
    P(<<paths.v8Src, outPath, S_obj, libName(h)>>)

(* As copyPath, had it been resolved from paths.build. *)
copyPathInBuild(h, a) ==
    resolve(<<Val(paths.build), Val(h), Val(StripQuotes(a.target_cpu)),
              Val(IF a.is_debug THEN S_Debug ELSE S_Release), Val(libName(h))>>)

(* resolve(paths.depLibs, os.platform(), cpu, Debug|Release, libName):     *)
(* the object paths has no key depLibs.                                    *)
copyPath(h, a) ==
    resolve(<<Prop(paths, "depLibs"), Val(h), Val(StripQuotes(a.target_cpu)),
              Val(IF a.is_debug THEN S_Debug ELSE S_Release), Val(libName(h))>>)

(* The staging path the workspace layout provides for a cell. *)
StagedPath(h, cpu, dbg) ==
    P(<<paths.build, h, cpu, IF dbg THEN S_Debug ELSE S_Release, libName(h)>>)

(* The flag string and the argument arrays of buildV8, lines 163-171. *)

(* A boolean in a template literal. *)
Bool(b) ==
    IF b THEN S_true ELSE S_false

RECURSIVE Num(_)
(* A non-negative integer in a template literal: its decimal digits. *)
Num(n) ==
    LET digit == <<"0", "1", "2", "3", "4", "5", "6", "7", "8", "9">>
    IN  IF n < 10 THEN <<digit[n + 1]>>
        ELSE Num(n \div 10) \o <<digit[(n % 10) + 1]>>

(* for (const k in args): the keys in the order the object literal of      *)
(* lines 217-233 gives them, each with `${args[k]}`.                       *)
Entries(a) ==
    <<
      <<(* is_debug *)
        <<"i", "s", "_", "d", "e", "b", "u", "g">>,
        Bool(a.is_debug)>>,
      <<(* target_cpu *)
        <<"t", "a", "r", "g", "e", "t", "_", "c", "p", "u">>,
        a.target_cpu>>,
      <<(* v8_target_cpu *)
        <<"v", "8", "_", "t", "a", "r", "g", "e", "t", "_", "c", "p",
          "u">>,
        a.v8_target_cpu>>,
      <<(* is_component_build *)
        <<"i", "s", "_", "c", "o", "m", "p", "o", "n", "e", "n", "t",
          "_", "b", "u", "i", "l", "d">>,
        Bool(a.is_component_build)>>,
      <<(* v8_static_library *)
        <<"v", "8", "_", "s", "t", "a", "t", "i", "c", "_", "l", "i",
          "b", "r", "a", "r", "y">>,
        Bool(a.v8_static_library)>>,
      <<(* v8_monolithic *)
        <<"v", "8", "_", "m", "o", "n", "o", "l", "i", "t", "h", "i",
          "c">>,
        Bool(a.v8_monolithic)>>,
      <<(* v8_use_external_startup_data *)
        <<"v", "8", "_", "u", "s", "e", "_", "e", "x", "t", "e", "r",
          "n", "a", "l", "_", "s", "t", "a", "r", "t", "u", "p", "_",
          "d", "a", "t", "a">>,
        Bool(a.v8_use_external_startup_data)>>,
      <<(* v8_enable_test_features *)
        <<"v", "8", "_", "e", "n", "a", "b", "l", "e", "_", "t", "e",
          "s", "t", "_", "f", "e", "a", "t", "u", "r", "e", "s">>,
        Bool(a.v8_enable_test_features)>>,
      <<(* v8_enable_i18n_support *)
        <<"v", "8", "_", "e", "n", "a", "b", "l", "e", "_", "i", "1",
          "8", "n", "_", "s", "u", "p", "p", "o", "r", "t">>,
        Bool(a.v8_enable_i18n_support)>>,
      <<(* treat_warnings_as_errors *)
        <<"t", "r", "e", "a", "t", "_", "w", "a", "r", "n", "i", "n",
          "g", "s", "_", "a", "s", "_", "e", "r", "r", "o", "r", "s">>,
        Bool(a.treat_warnings_as_errors)>>,
      <<(* symbol_level *)
        <<"s", "y", "m", "b", "o", "l", "_", "l", "e", "v", "e", "l">>,
        Num(a.symbol_level)>>,
      <<(* v8_use_snapshot *)
        <<"v", "8", "_", "u", "s", "e", "_", "s", "n", "a", "p", "s",
          "h", "o", "t">>,
        Bool(a.v8_use_snapshot)>>,
      <<(* is_clang *)
        <<"i", "s", "_", "c", "l", "a", "n", "g">>,
        Bool(a.is_clang)>>,
      <<(* use_sysroot *)
        <<"u", "s", "e", "_", "s", "y", "s", "r", "o", "o", "t">>,
        Bool(a.use_sysroot)>>,
      <<(* use_custom_libcxx *)
        <<"u", "s", "e", "_", "c", "u", "s", "t", "o", "m", "_", "l",
          "i", "b", "c", "x", "x">>,
        Bool(a.use_custom_libcxx)>>
    >>

RECURSIVE Concat(_)
(* argStr += `${k}=${args[k]} ` over the entries, lines 163-165 *)
Concat(ents) ==
    IF ents = <<>> THEN <<>>
    ELSE Head(ents)[1] \o <<"=">> \o Head(ents)[2] \o <<" ">> \o Concat(Tail(ents))

(* As trim, had the string been left as the loop built it. *)
trimNothing(s) ==
    s

(* String.prototype.trim, for strings whose only white space is " ". *)
trim(s) ==
    LET ink == {i \in 1..Len(s) : s[i] # " "}
    IN  IF ink = {} THEN <<>>
        ELSE SubSeq(s, CHOOSE i \in ink : \A j \in ink : i <= j,
                       CHOOSE i \in ink : \A j \in ink : i >= j)

RECURSIVE EscapeQuotes(_)
(* replace(/\"/g, "\\\""): a backslash is put before every double quote. *)
EscapeQuotes(s) ==
    IF s = <<>> THEN <<>>
    ELSE IF Len(s) = 1 THEN (IF s[1] = QUOTE THEN <<"\\", QUOTE>> ELSE s)
    ELSE LET half == Len(s) \div 2
         IN  EscapeQuotes(SubSeq(s, 1, half)) \o EscapeQuotes(SubSeq(s, half + 1, Len(s)))

(* argStr after line 167 *)
argStr(a) ==
    EscapeQuotes(trim(Concat(Entries(a))))

(* ["gen", outPath, `--args="${argStr}"`], line 170 *)
GnArgv(out, a) ==
    <<S_gen, out, S_args_open \o argStr(a) \o <<QUOTE>>>>

(* ["-C", outPath, args.v8_monolithic ? "v8_monolith" : V8], line 171 *)
NinjaArgv(out, a) ==
    <<S_C, out, IF a.v8_monolithic THEN S_v8_monolith ELSE V8>>

----------------------------------------------------------------------------
(* The state of one run of the script. *)

VARIABLES
    host,       \* os.platform()
    fs,         \* the path names that exist on disk
    pc,         \* the statement the execFn callback is at
    promise,    \* the promise the callback awaits: none, pending, resolved
    children,   \* the child processes exec started that have not exited
    log,        \* what the run has done so far, in order
    buildAll,   \* the answer to "Build all?"
    args,       \* the gn arguments object
    cellNo,     \* how many buildV8 calls the buildAll branch has made
    outPath,    \* the outPath parameter of the running buildV8 call
    req,        \* the https request of downloadDepotTools
    zip,        \* the downloaded archive on disk: absent, partial, complete
    rs,         \* the read stream of unzipDepotTools
    extract,    \* the unzipper Extract stream: idle, running, done
    versionsFile, \* the lines read from v8-version.h at line 289
    version     \* the version string of line 299

vars ==
    <<host, fs, pc, promise, children, log, buildAll, args, cellNo, outPath,
      req, zip, rs, extract, versionsFile, version>>

(* One entry of the log. *)
Ev(stage, ev, cmd, cell, code) ==
    [stage |-> stage, ev |-> ev, cmd |-> cmd, cell |-> cell, code |-> code]

NoCell ==
    <<>>

(* The args object of lines 217-233. *)
MakeArgs(isDebug, platform, useClang) ==
    [is_debug                     |-> isDebug,
     target_cpu                   |-> platform,
     v8_target_cpu                |-> platform,
     is_component_build           |-> FALSE,
     v8_static_library            |-> TRUE,
     v8_monolithic                |-> TRUE,
     v8_use_external_startup_data |-> FALSE,
     v8_enable_test_features      |-> FALSE,
     v8_enable_i18n_support       |-> FALSE,
     treat_warnings_as_errors     |-> FALSE,
     symbol_level                 |-> 0,
     v8_use_snapshot              |-> FALSE,
     is_clang                     |-> useClang,
     use_sysroot                  |-> FALSE,
     use_custom_libcxx            |-> FALSE]

(* The disk before the run: any of these groups of files may be left from  *)
(* an earlier run or put there by the user; a file implies its parents.    *)
SrcStates ==
    {{}, {paths.thirdParty, paths.v8, paths.v8Src},
     {paths.thirdParty, paths.v8, paths.v8Src, v8SrcInclude}}

ArtifactChoices(h) ==
    SUBSET {buildPath(h, getV8OutPath(MakeArgs(TRUE, S_x64, FALSE))),
            buildPath(h, getV8OutPath(MakeArgs(FALSE, S_x64, FALSE)))}

BuildStates(h) ==
    {{}, LayoutDirs, LayoutDirs \cup {paths.buildIncludes},
     LayoutDirs \cup {StagedPath(h, S_x64, TRUE)},
     LayoutDirs \cup {paths.buildIncludes, StagedPath(h, S_x64, TRUE)}}

InitialDisks(h) ==
    {tools \cup src \cup arts \cup bld :
        tools \in {{}, {paths.thirdParty, paths.depot_tools}},
        src \in SrcStates,
        arts \in ArtifactChoices(h),
        bld \in BuildStates(h)}

DiskOk(h, d) ==
    \A a \in UNION ArtifactChoices(h) : a \in d => paths.v8Src \in d

Init ==
    /\ host \in Platforms
    /\ fs \in {d \in InitialDisks(host) : DiskOk(host, d)}
    /\ pc = "genLibPaths"
    /\ promise = "none"
    /\ children = {}
    /\ log = <<>>
    /\ buildAll = FALSE
    /\ args = MakeArgs(FALSE, <<>>, FALSE)
    /\ cellNo = 0
    /\ outPath = <<>>
    /\ req = "idle"
    /\ zip = "absent"
    /\ rs = "idle"
    /\ extract = "idle"
    /\ versionsFile = <<>>
    /\ version = <<>>

(* The process is running: no unhandled rejection, uncaught exception or   *)
(* process.exit has ended it.                                              *)
Alive ==
    pc \notin {"rejected", "crashed", "exited"}

(* As Awaiting, had the promise of run not been awaited. *)
AwaitingNever ==
    FALSE

(* The callback is suspended at an await whose promise has not settled. *)
Awaiting ==
    promise = "pending"

(* The callback can run its next statement. *)
Ready(p) ==
    Alive /\ pc = p /\ ~Awaiting

----------------------------------------------------------------------------
(* run(cmd, args, cwd), lines 76-89. *)

(* exec starts the child on the command and its arguments (cmd names the   *)
(* command together with its first argument); the callback goes on to     *)
(* await the promise.                                                      *)
run(stage, cmd, argv, cwd, cell, next) ==
    /\ children' = children \cup {[cmd |-> cmd, argv |-> argv, cwd |-> cwd,
                                    cell |-> cell, stage |-> stage]}
    /\ promise' = "pending"
    /\ pc' = next
    /\ log' = Append(log, Ev(stage, "issue", cmd, cell, 0))

(* What the files are after the child has exited with the code. *)
ExitEffect(c, code, fsx, h) ==
    IF code # 0 THEN fsx
    ELSE IF c.cmd = "git clone" THEN fsx \cup {paths.depot_tools}
    ELSE IF c.cmd = "fetch v8" THEN fsx \cup {paths.v8Src, v8SrcInclude}
    ELSE IF c.cmd = "ninja" THEN fsx \cup {buildPath(h, c.cell)}
    ELSE fsx

(* p.on("exit", res): the promise resolves with the exit code, whatever    *)
(* the code is; no caller reads it.                                        *)
ExitSettles(code) ==
    "resolved"

(* As ErrorSettles, had the error event been wired to res. *)
ErrorSettlesResolved ==
    "resolved"

(* p.on("error", rej): the promise is rejected. *)
ErrorSettles ==
    "rejected"

(* The await of a settled promise: a rejection is thrown, no caller        *)
(* catches it, and the unhandled rejection ends the run.                   *)
Settle(how) ==
    IF how = "rejected"
    THEN /\ promise' = "none"
         /\ pc' = "rejected"
    ELSE /\ promise' = "resolved"
         /\ UNCHANGED pc

(* The child's exit event.  A child whose working directory does not       *)
(* exist is never spawned: it has only the error event.                    *)
ChildExit ==
    \E c \in children, code \in {0, 1} :
        /\ Alive
        /\ c.cwd \in fs
        /\ children' = children \ {c}
        /\ fs' = ExitEffect(c, code, fs, host)
        /\ log' = Append(log, Ev(c.stage, "exit", c.cmd, c.cell, code))
        /\ Settle(ExitSettles(code))
        /\ UNCHANGED <<versionsFile, version,
                       host, buildAll, args, cellNo, outPath, req, zip, rs, extract>>

(* The child's error event (the process could not be spawned). *)
ChildError ==
    \E c \in children :
        /\ Alive
        /\ children' = children \ {c}
        /\ log' = Append(log, Ev(c.stage, "error", c.cmd, c.cell, 0))
        /\ Settle(ErrorSettles)
        /\ UNCHANGED <<versionsFile, version,
                       host, fs, buildAll, args, cellNo, outPath, req, zip, rs, extract>>

----------------------------------------------------------------------------
(* The execFn callback, lines 185-320, up to the build. *)

(* genLibPaths(), lines 53-72 and 187; the entry counts the directories    *)
(* made.                                                                   *)
genLibPaths ==
    /\ Ready("genLibPaths")
    /\ LET r == GenLibPathsOn(fs)
       IN  /\ fs' = r.fs
           /\ pc' = IF r.err = "none" THEN "prompts" ELSE "rejected"
           /\ log' = Append(log, Ev("layout",
                                    IF r.err = "none" THEN "mkdirp" ELSE "throw",
                                    "genLibPaths", NoCell, Len(r.made)))
    /\ UNCHANGED <<versionsFile, version,
                   host, promise, children, buildAll, args, cellNo, outPath,
                   req, zip, rs, extract>>

(* The prompts and the args object, lines 189-233.  getUserInput asks      *)
(* again until the answer is one of its options, so every answer that      *)
(* gets through is one of them.  The debug flag and the cpu are asked for  *)
(* only when not building all, clang only off win32.                       *)
Prompts ==
    \E all \in BOOLEAN, dbg \in BOOLEAN, cpu \in {S_x64, S_x86}, clang \in BOOLEAN :
        /\ Ready("prompts")
        /\ all => (dbg /\ cpu = S_x64)
        /\ host = S_win32 => ~clang
        /\ buildAll' = all
        /\ args' = MakeArgs(IF all THEN TRUE ELSE dbg,
                            IF all THEN S_x64 ELSE Quoted(cpu),
                            clang)
        /\ pc' = "setup"
        /\ log' = Append(log, Ev("collect", "config", "prompts", NoCell, 0))
        /\ UNCHANGED <<versionsFile, version,
                       host, fs, promise, children, cellNo, outPath,
                       req, zip, rs, extract>>

(* if (!fs.existsSync(paths.depot_tools)), line 240 *)
NeedsSetup(fsx) ==
    paths.depot_tools \notin fsx

(* As NeedsFetch, had the sources been fetched on every run. *)
NeedsFetchAlways(fsx) ==
    TRUE

(* if (!fs.existsSync(paths.v8Src)), line 245 *)
NeedsFetch(fsx) ==
    paths.v8Src \notin fsx

(* Lines 235-241 and 133-134: mkdirp(paths.thirdParty), then the toolchain *)
(* is set up unless its directory exists.                                  *)
SetupCheck ==
    /\ Ready("setup")
    /\ fs' = mkdirp(fs, paths.thirdParty)
    /\ pc' = IF NeedsSetup(fs')
             THEN (IF host = S_win32 THEN "download" ELSE "clone")
             ELSE "fetchCheck"
    /\ log' = Append(log, Ev("bootstrap", "check", "depot_tools", NoCell,
                             IF paths.depot_tools \in fs THEN 1 ELSE 0))
    /\ UNCHANGED <<versionsFile, version,
                   host, promise, children, buildAll, args, cellNo, outPath,
                   req, zip, rs, extract>>

(* await run("git", ["clone", ...]), line 141 *)
GitClone ==
    /\ Ready("clone")
    /\ run("bootstrap", "git clone", <<S_clone, S_depot_tools_git>>,
           paths.thirdParty, NoCell, "gclient")
    /\ UNCHANGED <<versionsFile, version,
                   host, fs, buildAll, args, cellNo, outPath, req, zip, rs, extract>>

(* await run("gclient", []), line 142 *)
Gclient ==
    /\ Ready("gclient")
    /\ run("bootstrap", "gclient", <<>>, paths.thirdParty, NoCell, "fetchCheck")
    /\ UNCHANGED <<versionsFile, version,
                   host, fs, buildAll, args, cellNo, outPath, req, zip, rs, extract>>

(* Lines 243-246: mkdirp(paths.v8), then the sources are fetched unless    *)
(* their directory exists.                                                 *)
FetchCheck ==
    /\ Ready("fetchCheck")
    /\ fs' = mkdirp(fs, paths.v8)
    /\ pc' = IF NeedsFetch(fs') THEN "fetch" ELSE "headers"
    /\ log' = Append(log, Ev("fetch", "check", "v8Src", NoCell,
                             IF paths.v8Src \in fs THEN 1 ELSE 0))
    /\ UNCHANGED <<versionsFile, version,
                   host, promise, children, buildAll, args, cellNo, outPath,
                   req, zip, rs, extract>>

(* await run("fetch", [V8], paths.v8), line 149 *)
Fetch ==
    /\ Ready("fetch")
    /\ run("fetch", "fetch v8", <<V8>>, paths.v8, NoCell, "sync")
    /\ UNCHANGED <<versionsFile, version,
                   host, fs, buildAll, args, cellNo, outPath, req, zip, rs, extract>>

(* await run("gclient", ["sync"], paths.v8Src), lines 150-151 *)
GclientSync ==
    /\ Ready("sync")
    /\ run("fetch", "gclient sync", <<S_sync>>, paths.v8Src, NoCell,
           IF host # S_win32 THEN "deps" ELSE "headers")
    /\ UNCHANGED <<versionsFile, version,
                   host, fs, buildAll, args, cellNo, outPath, req, zip, rs, extract>>

(* await run("./build/install-build-deps.sh", [], paths.v8Src), line 152 *)
InstallBuildDeps ==
    /\ Ready("deps")
    /\ run("fetch", "install-build-deps", <<>>, paths.v8Src, NoCell, "headers")
    /\ UNCHANGED <<versionsFile, version,
                   host, fs, buildAll, args, cellNo, outPath, req, zip, rs, extract>>

(* Lines 248-251: the headers are copied unless build/include exists;      *)
(* fs.cpSync throws when its source does not exist.                        *)
CopyHeaders ==
    /\ Ready("headers")
    /\ IF paths.buildIncludes \in fs
       THEN /\ pc' = IF buildAll THEN "matrix" ELSE "single"
            /\ UNCHANGED <<fs, log>>
       ELSE IF v8SrcInclude \in fs
       THEN /\ fs' = fs \cup {paths.build, paths.buildIncludes}
            /\ pc' = IF buildAll THEN "matrix" ELSE "single"
            /\ log' = Append(log, Ev("headers", "copy", "cpSync", NoCell, 0))
       ELSE /\ pc' = "rejected"
            /\ log' = Append(log, Ev("headers", "throw", "cpSync", NoCell, 0))
            /\ UNCHANGED fs
    /\ UNCHANGED <<versionsFile, version,
                   host, promise, children, buildAll, args, cellNo, outPath,
                   req, zip, rs, extract>>

----------------------------------------------------------------------------
(* downloadDepotTools and unzipDepotTools, lines 97-138 (win32). *)

(* As BadStatus, had only server errors been refused. *)
BadStatusServerOnly(status) ==
    status >= 500

(* response.statusCode !== 200, line 104 *)
BadStatus(status) ==
    status # 200

(* const zipPath = await downloadDepotTools(), lines 136 and 97-102: the   *)
(* write stream creates the archive file and the request is sent.          *)
Download ==
    /\ Ready("download")
    /\ fs' = fs \cup {zipPath}
    /\ zip' = "partial"
    /\ req' = "sent"
    /\ promise' = "pending"
    /\ pc' = "unzip"
    /\ log' = Append(log, Ev("bootstrap", "request", "https.get", NoCell, 0))
    /\ UNCHANGED <<versionsFile, version,
                   host, children, buildAll, args, cellNo, outPath, rs, extract>>

(* The response callback, lines 103-112.  On a status other than 200 the   *)
(* argument of rej is evaluated first: its template reads the undeclared   *)
(* identifier url, and the ReferenceError is an uncaught exception of the  *)
(* event handler, which ends the process.  On 200 the body is piped to the *)
(* write stream.                                                           *)
HttpResponse ==
    \E status \in {200, 204, 301, 404, 500} :
        /\ Alive
        /\ req = "sent"
        /\ IF BadStatus(status)
           THEN /\ req' = "failed"
                /\ pc' = "crashed"
           ELSE /\ req' = "streaming"
                /\ UNCHANGED pc
        /\ log' = Append(log, Ev("bootstrap", "response", "https.get", NoCell, status))
        /\ UNCHANGED <<versionsFile, version,
                       host, fs, promise, children, buildAll, args, cellNo,
                       outPath, zip, rs, extract>>

(* req.on("error", ...), line 115: the error is logged and the process    *)
(* exits.  The request may fail before the response or during its body.    *)
HttpError ==
    /\ Alive
    /\ req \in {"sent", "streaming"}
    /\ req' = "failed"
    /\ pc' = "exited"
    /\ log' = Append(log, Ev("bootstrap", "neterror", "https.get", NoCell, 0))
    /\ UNCHANGED <<versionsFile, version,
                   host, fs, promise, children, buildAll, args, cellNo,
                   outPath, zip, rs, extract>>

(* req.on("close", () => res(p)), line 114: the response has ended (the    *)
(* write stream has been told to end, and may not have flushed yet).       *)
HttpClose ==
    /\ Alive
    /\ req = "streaming"
    /\ req' = "closed"
    /\ promise' = "resolved"
    /\ log' = Append(log, Ev("bootstrap", "close", "https.get", NoCell, 0))
    /\ UNCHANGED <<versionsFile, version,
                   host, fs, pc, children, buildAll, args, cellNo,
                   outPath, zip, rs, extract>>

(* The write stream of line 100 has written the whole body to the file. *)
WriteFinish ==
    /\ Alive
    /\ req = "closed"
    /\ zip = "partial"
    /\ zip' = "complete"
    /\ log' = Append(log, Ev("bootstrap", "written", "depot_tools.zip", NoCell, 0))
    /\ UNCHANGED <<versionsFile, version,
                   host, fs, pc, promise, children, buildAll, args, cellNo,
                   outPath, req, rs, extract>>

(* await unzipDepotTools(zipPath), lines 137 and 118-128: the archive is   *)
(* read and piped into unzipper's Extract.                                 *)
Unzip ==
    /\ Ready("unzip")
    /\ rs' = "open"
    /\ extract' = "running"
    /\ promise' = "pending"
    /\ pc' = "fetchCheck"
    /\ log' = Append(log, Ev("bootstrap", "unzip", "depot_tools.zip", NoCell,
                             IF zip = "complete" THEN 1 ELSE 0))
    /\ UNCHANGED <<versionsFile, version,
                   host, fs, children, buildAll, args, cellNo, outPath, req, zip>>

(* s.on("close", ...), lines 121-125: the read stream has closed; the      *)
(* archive is deleted and the promise resolves.                            *)
ReadClose ==
    /\ Alive
    /\ rs = "open"
    /\ rs' = "closed"
    /\ fs' = fs \ {zipPath}
    /\ zip' = "absent"
    /\ promise' = "resolved"
    /\ log' = Append(log, Ev("bootstrap", "unlink", "depot_tools.zip", NoCell, 0))
    /\ UNCHANGED <<versionsFile, version,
                   host, pc, children, buildAll, args, cellNo, outPath, req, extract>>

(* s.on("error", rej), line 126 *)
ReadError ==
    /\ Alive
    /\ rs = "open"
    /\ rs' = "failed"
    /\ Settle("rejected")
    /\ log' = Append(log, Ev("bootstrap", "error", "depot_tools.zip", NoCell, 0))
    /\ UNCHANGED <<versionsFile, version,
                   host, fs, children, buildAll, args, cellNo, outPath, req, zip, extract>>

(* unzip.Extract({ path: paths.depot_tools }), line 128, has written the   *)
(* last entry.  Nothing in the script listens to this stream: it finishes  *)
(* when it finishes, before or after the read stream closes.               *)
ExtractFinish ==
    /\ Alive
    /\ extract = "running"
    /\ extract' = "done"
    /\ fs' = fs \cup {paths.depot_tools}
    /\ log' = Append(log, Ev("bootstrap", "extracted", "depot_tools", NoCell, 0))
    /\ UNCHANGED <<versionsFile, version,
                   host, pc, promise, children, buildAll, args, cellNo, outPath,
                   req, zip, rs>>

----------------------------------------------------------------------------
(* The build matrix and buildV8, lines 157-181 and 251-316. *)

(* The assignments to args before the n-th buildV8 call, lines 254-276. *)
CellArgs(n, a) ==
    IF n = 1
    THEN [a EXCEPT !.target_cpu = Quoted(S_x64), !.v8_target_cpu = Quoted(S_x64),
                   !.is_debug = TRUE, !.symbol_level = 2]
    ELSE IF n = 3
    THEN [a EXCEPT !.target_cpu = Quoted(S_x86), !.v8_target_cpu = Quoted(S_x86),
                   !.is_debug = TRUE, !.symbol_level = 2]
    ELSE [a EXCEPT !.is_debug = FALSE, !.symbol_level = 0]

(* if (os.platform() !== "linux"), line 265 *)
BuildsX86(h) ==
    h # S_linux

(* The number of buildV8 calls of the buildAll branch. *)
CellCount(h) ==
    IF BuildsX86(h) THEN 4 ELSE 2

(* The buildAll branch between two buildV8 calls: the next cell's          *)
(* assignments and call, or on to the release archive.                     *)
Matrix ==
    /\ Ready("matrix")
    /\ IF cellNo < CellCount(host)
       THEN /\ args' = CellArgs(cellNo + 1, args)
            /\ cellNo' = cellNo + 1
            /\ outPath' = getV8OutPath(args')
            /\ pc' = "bv_enter"
       ELSE /\ pc' = "release"
            /\ UNCHANGED <<args, cellNo, outPath>>
    /\ UNCHANGED <<versionsFile, version,
                   host, fs, promise, children, log, buildAll, req, zip, rs, extract>>

(* await buildV8(v8OutPath, args), line 315: no v8OutPath is declared in   *)
(* any scope, so evaluating the arguments throws a ReferenceError before   *)
(* buildV8 is called.                                                      *)
SingleCell ==
    /\ Ready("single")
    /\ pc' = "rejected"
    /\ log' = Append(log, Ev("matrix", "throw", "v8OutPath", NoCell, 0))
    /\ UNCHANGED <<versionsFile, version,
                   host, fs, promise, children, buildAll, args, cellNo, outPath,
                   req, zip, rs, extract>>

(* As ArtifactMissing, had the existence test been left out. *)
ArtifactMissingAlways(fsx, path) ==
    TRUE

(* if (!fs.existsSync(buildPath)), line 161 *)
ArtifactMissing(fsx, path) ==
    path \notin fsx

(* buildV8, lines 159-161 *)
BuildV8Enter ==
    /\ Ready("bv_enter")
    /\ pc' = IF ArtifactMissing(fs, buildPath(host, outPath)) THEN "bv_gen" ELSE "bv_copy"
    /\ log' = Append(log, Ev("matrix", "enter", "buildV8", outPath,
                             IF buildPath(host, outPath) \in fs THEN 1 ELSE 0))
    /\ UNCHANGED <<versionsFile, version,
                   host, fs, promise, children, buildAll, args, cellNo, outPath,
                   req, zip, rs, extract>>

(* await run("gn", ["gen", outPath, ...], paths.v8Src), lines 163-170 *)
BuildV8Gen ==
    /\ Ready("bv_gen")
    /\ run("matrix", "gn gen", GnArgv(outPath, args), paths.v8Src, outPath, "bv_ninja")
    /\ UNCHANGED <<versionsFile, version,
                   host, fs, buildAll, args, cellNo, outPath, req, zip, rs, extract>>

(* await run("ninja", ["-C", outPath, ...], paths.v8Src), line 171 *)
BuildV8Ninja ==
    /\ Ready("bv_ninja")
    /\ run("matrix", "ninja", NinjaArgv(outPath, args), paths.v8Src, outPath, "bv_copy")
    /\ UNCHANGED <<versionsFile, version,
                   host, fs, buildAll, args, cellNo, outPath, req, zip, rs, extract>>

(* buildV8, lines 174-180: resolve throws on the undefined paths.depLibs;  *)
(* otherwise an existing copy is unlinked and the artifact copied, and     *)
(* fs.copyFileSync throws when the artifact does not exist.                *)
BuildV8Copy ==
    /\ Ready("bv_copy")
    /\ LET cp == copyPath(host, args)
       IN  IF ~cp.ok
           THEN /\ pc' = "rejected"
                /\ log' = Append(log, Ev("matrix", "throw", "resolve", outPath, 0))
                /\ UNCHANGED fs
           ELSE IF buildPath(host, outPath) \notin fs
           THEN /\ pc' = "rejected"
                /\ fs' = fs \ {cp.path}
                /\ log' = Append(log, Ev("matrix", "throw", "copyFileSync", outPath, 0))
           ELSE /\ pc' = IF buildAll THEN "matrix" ELSE "closeRl"
                /\ fs' = (fs \ {cp.path}) \cup {cp.path}
                /\ log' = Append(log, Ev("matrix", "copy", "copyFileSync", outPath, 0))
    /\ UNCHANGED <<versionsFile, version,
                   host, promise, children, buildAll, args, cellNo, outPath,
                   req, zip, rs, extract>>

----------------------------------------------------------------------------
(* The release archive (lines 280-311) and the end of the callback (lines  *)
(* 318-319) follow a buildV8 call that returned: BuildV8Copy leaves the    *)
(* callback there when it does.                                            *)

Next ==
    \/ genLibPaths
    \/ Prompts
    \/ SetupCheck
    \/ Download
    \/ HttpResponse
    \/ HttpError
    \/ HttpClose
    \/ WriteFinish
    \/ Unzip
    \/ ReadClose
    \/ ReadError
    \/ ExtractFinish
    \/ GitClone
    \/ Gclient
    \/ FetchCheck
    \/ Fetch
    \/ GclientSync
    \/ InstallBuildDeps
    \/ CopyHeaders
    \/ Matrix
    \/ SingleCell
    \/ BuildV8Enter
    \/ BuildV8Gen
    \/ BuildV8Ninja
    \/ BuildV8Copy
    \/ ChildExit
    \/ ChildError

Spec ==
    Init /\ [][Next]_vars

----------------------------------------------------------------------------
(* Vocabulary of the properties. *)

Idx ==
    1..Len(log)

(* The run is over: the callback has returned or the process has ended. *)
RunEnded ==
    pc \in {"rejected", "crashed", "exited", "done"}

(* An external tool invocation made through run. *)
IsIssue(e) ==
    e.ev = "issue"

(* The copy of an artifact to its staging path. *)
IsArtifactCopy(e) ==
    e.ev = "copy" /\ e.cmd = "copyFileSync"

(* A step of the version extraction or of the release packaging. *)
IsRelease(e) ==
    e.stage \in {"version", "package"}

(* No external invocation of the run has failed: none exited with a        *)
(* nonzero code, none emitted an error event, none is still running.       *)
NoInvocationFailed ==
    /\ children = {}
    /\ \A i \in Idx : ~(log[i].ev = "exit" /\ log[i].code # 0)
    /\ \A i \in Idx : log[i].ev # "error"

(* The output directories of the cells of full-matrix mode, in the order   *)
(* x64 debug, x64 release, x86 debug, x86 release.                         *)
CellOrder ==
    <<getV8OutPath(MakeArgs(TRUE, Quoted(S_x64), FALSE)),
      getV8OutPath(MakeArgs(FALSE, Quoted(S_x64), FALSE)),
      getV8OutPath(MakeArgs(TRUE, Quoted(S_x86), FALSE)),
      getV8OutPath(MakeArgs(FALSE, Quoted(S_x86), FALSE))>>

(* The cells whose buildV8 call has been entered, in order. *)
EnteredCells ==
    LET ent == SelectSeq(log, LAMBDA e : e.ev = "enter")
    IN  [i \in 1..Len(ent) |-> ent[i].cell]

StageOrder ==
    <<"layout", "collect", "bootstrap", "fetch", "headers", "matrix", "version", "package">>

StageNo(st) ==
    CHOOSE n \in 1..Len(StageOrder) : StageOrder[n] = st

----------------------------------------------------------------------------
(* C1: if an external tool invocation made through run exits with a        *)
(* nonzero code, the stage that issued it is rejected: no later external   *)
(* invocation, artifact copy or packaging step is performed in that run.   *)
C1_NonzeroExitRejectsStage ==
    \A i \in Idx :
        (log[i].ev = "exit" /\ log[i].code # 0) =>
            \A j \in Idx :
                j > i => ~(IsIssue(log[j]) \/ IsArtifactCopy(log[j]) \/ IsRelease(log[j]))

(* C2: if an external invocation emits an error event while a matrix cell  *)
(* is being processed, the cell's processing is rejected and the pipeline  *)
(* aborts: the error is the last thing the run does, so no later cell is   *)
(* generated, built or copied and no version extraction or packaging       *)
(* starts.                                                                 *)
C2_ErrorEventAbortsPipeline ==
    \A i \in Idx :
        (log[i].ev = "error" /\ log[i].stage = "matrix") =>
            /\ i = Len(log)
            /\ pc = "rejected"
            /\ children = {}

(* C2's case: gn gen of a cell has emitted an error event. *)
C2_Witness ==
    /\ Len(log) > 0
    /\ log[Len(log)].ev = "error"
    /\ log[Len(log)].cmd = "gn gen"
    /\ log[Len(log)].cell = CellOrder[1]

(* C3: if the artifact exists at <v8Src>/<outPath>/obj/<libName> when      *)
(* buildV8 is entered for a cell, no gn gen and no ninja is issued for     *)
(* that cell; the call goes straight to the copy step.                     *)
C3_ExistingArtifactSkipsBuild ==
    \A i \in Idx :
        (log[i].ev = "enter" /\ log[i].code = 1) =>
            /\ \A j \in Idx :
                   (IsIssue(log[j]) /\ log[j].cmd \in {"gn gen", "ninja"}) =>
                       log[j].cell # log[i].cell
            /\ (i = Len(log) => pc = "bv_copy")

(* C3's case: buildV8 was entered with the artifact present and has gone   *)
(* through its copy step.                                                  *)
C3_Witness ==
    /\ Len(log) > 1
    /\ log[Len(log) - 1].ev = "enter"
    /\ log[Len(log) - 1].code = 1
    /\ log[Len(log)].stage = "matrix"
    /\ log[Len(log)].cell = log[Len(log) - 1].cell
    /\ buildPath(host, log[Len(log)].cell) \in fs

(* The staging paths of the cells the run was asked for. *)
RequestedStagedPaths ==
    IF buildAll
    THEN {StagedPath(host, cpu, dbg) :
              cpu \in (IF host = S_linux THEN {S_x64} ELSE {S_x64, S_x86}),
              dbg \in BOOLEAN}
    ELSE {StagedPath(host, StripQuotes(args.target_cpu), args.is_debug)}

(* C4: after a run in which every external invocation succeeds, the        *)
(* artifact of every requested cell exists at its staging path             *)
(* build/<hostOS>/<architecture>/<Debug|Release>/<static-library-file>.    *)
(* Stated of the runs that built an artifact with ninja.                   *)
C4_SuccessfulRunStagesEveryCell ==
    ( /\ RunEnded
      /\ NoInvocationFailed
      /\ \E i \in Idx : log[i].ev = "exit" /\ log[i].cmd = "ninja" )
    => \A sp \in RequestedStagedPaths : sp \in fs

(* C5: in full-matrix mode the cells are processed in the order x64 debug, *)
(* x64 release, x86 debug, x86 release: no step of a cell comes before the *)
(* copy step of every earlier cell, and a run that has built its first     *)
(* cell without a failing invocation goes through the cells of the host    *)
(* in that order.                                                          *)
C5_CellsInFixedOrder ==
    /\ \A j \in Idx : \A n \in 2..Len(CellOrder) :
           (log[j].stage = "matrix" /\ log[j].cell = CellOrder[n]) =>
               \A m \in 1..(n - 1) :
                   \E k \in 1..(j - 1) :
                       IsArtifactCopy(log[k]) /\ log[k].cell = CellOrder[m]
    /\ ( /\ RunEnded
         /\ buildAll
         /\ NoInvocationFailed
         /\ \E i \in Idx : log[i].ev = "exit" /\ log[i].cmd = "ninja" )
       => EnteredCells = SubSeq(CellOrder, 1, CellCount(host))

(* C6: on linux in full-matrix mode only the x64 debug and x64 release     *)
(* cells are attempted, no gn gen, ninja or copy is performed for an x86   *)
(* cell, and packaging follows the two x64 cells.                          *)
C6_LinuxSkipsX86AndPackages ==
    (host = S_linux /\ buildAll) =>
        /\ \A j \in Idx : log[j].cell \notin {CellOrder[3], CellOrder[4]}
        /\ ( /\ RunEnded
             /\ NoInvocationFailed
             /\ \E i \in Idx : log[i].ev = "exit" /\ log[i].cmd = "ninja" )
           => /\ EnteredCells = SubSeq(CellOrder, 1, 2)
              /\ \E j \in Idx : IsRelease(log[j])

(* C7: at most one child process started by the run is in flight, and an   *)
(* invocation is issued only after the one before it has exited (or has    *)
(* failed to start).                                                       *)
C7_OneInvocationAtATime ==
    /\ Cardinality(children) <= 1
    /\ \A i \in Idx : \A j \in Idx :
           (i < j /\ IsIssue(log[i]) /\ IsIssue(log[j])) =>
               \E k \in (i + 1)..(j - 1) :
                   /\ log[k].ev \in {"exit", "error"}
                   /\ log[k].cmd = log[i].cmd
                   /\ log[k].cell = log[i].cell

(* C7's case: an invocation is in flight after an earlier one has exited. *)
C7_Witness ==
    /\ Cardinality(children) = 1
    /\ \E c \in children : c.cmd = "ninja"
    /\ \E i \in Idx : log[i].ev = "exit" /\ log[i].cmd = "gn gen"

(* C8: the stages run in the order collection, bootstrap, fetch, header    *)
(* copy, build matrix, version extraction, packaging, and each stage has   *)
(* completed before the next one begins: the steps of the log never go     *)
(* back to an earlier stage, nothing a stage started is still running      *)
(* when a later stage takes a step, and the header copy and the first gn   *)
(* gen come after the exit of the last fetch command.                      *)
C8_StagesCompleteInOrder ==
    /\ \A i \in Idx : \A j \in Idx :
           i < j => StageNo(log[i].stage) <= StageNo(log[j].stage)
    /\ \A c \in children :
           Len(log) > 0 => StageNo(c.stage) >= StageNo(log[Len(log)].stage)
    /\ (Len(log) > 0 /\ StageNo(log[Len(log)].stage) > StageNo("bootstrap")) =>
           /\ extract # "running"
           /\ rs # "open"
           /\ zip # "partial"
    /\ \A j \in Idx :
           (log[j].stage \in {"headers", "matrix"}) =>
               \A i \in 1..(j - 1) :
                   (IsIssue(log[i]) /\ log[i].stage = "fetch") =>
                       \E k \in (i + 1)..(j - 1) :
                           log[k].ev = "exit" /\ log[k].cmd = log[i].cmd

(* C9: during the win32 bootstrap a non-2xx response or a transport error  *)
(* is fatal: the process ends at once, the archive is not extracted and    *)
(* nothing else is done in the run.                                        *)
C9_DownloadFailureIsFatal ==
    \A i \in Idx :
        \/ log[i].ev = "neterror"
        \/ (log[i].ev = "response" /\ log[i].code \notin 200..299)
        => /\ i = Len(log)
           /\ pc \in {"crashed", "exited"}
           /\ rs = "idle"
           /\ extract = "idle"
           /\ children = {}

(* C9's case: the download was answered with 404. *)
C9_Witness ==
    /\ host = S_win32
    /\ Len(log) > 0
    /\ log[Len(log)].ev = "response"
    /\ log[Len(log)].code = 404

(* C10: if third_party/v8/v8 exists when the run reaches the source        *)
(* fetcher, none of fetch, gclient sync and install-build-deps is invoked, *)
(* whatever the directory holds; and no bootstrap action is taken when     *)
(* the toolchain directory exists.                                         *)
C10_ExistingDirectoriesSkipStages ==
    /\ \A i \in Idx :
           (log[i].ev = "check" /\ log[i].cmd = "v8Src" /\ log[i].code = 1) =>
               \A j \in Idx :
                   ~(IsIssue(log[j]) /\ log[j].stage = "fetch")
    /\ \A i \in Idx :
           (log[i].ev = "check" /\ log[i].cmd = "depot_tools" /\ log[i].code = 1) =>
               /\ \A j \in Idx : log[j].stage = "bootstrap" => j = i
               /\ req = "idle" /\ rs = "idle" /\ extract = "idle"

(* C10's case: both directories existed, the sources without their include *)
(* directory, and the run has gone past the fetcher.                       *)
C10_Witness ==
    /\ \E i \in Idx : log[i].ev = "check" /\ log[i].cmd = "v8Src" /\ log[i].code = 1
    /\ \E i \in Idx : log[i].ev = "check" /\ log[i].cmd = "depot_tools" /\ log[i].code = 1
    /\ v8SrcInclude \notin fs
    /\ \E i \in Idx : log[i].stage \in {"headers", "matrix"}

----------------------------------------------------------------------------
(* Vocabulary of the later properties. *)

(* The path lies inside the directory. *)
Inside(dir, path) ==
    /\ Len(path) > Len(dir) + 1
    /\ SubSeq(path, 1, Len(dir) + 1) = dir \o <<SLASH>>

(* A release archive exists: a file inside the releases directory. *)
HasReleaseArchive ==
    \E f \in fs : Inside(paths.releases, f)

(* The process has ended with exit code 0: process.exit(0) of line 115,    *)
(* process.exit() of line 306 with no failure recorded, or the callback    *)
(* returned and the event loop ran empty.                                  *)
ExitedZero ==
    pc \in {"exited", "done"}

(* C11: in full-matrix mode a run in which every external invocation       *)
(* succeeds ends with exit code 0 after the release archive                *)
(* releases/v8-<version>-<hostOS>.zip has been created, and no run exits   *)
(* with code 0 before the archive exists.  Stated of the runs that built   *)
(* an artifact with ninja.                                                 *)
C11_ExitZeroOnlyAfterArchive ==
    /\ ( /\ RunEnded
         /\ buildAll
         /\ NoInvocationFailed
         /\ \E i \in Idx : log[i].ev = "exit" /\ log[i].cmd = "ninja" )
       => (ExitedZero /\ HasReleaseArchive)
    /\ (buildAll /\ ExitedZero) => HasReleaseArchive


(* C12: in single-cell mode the run processes exactly the cell the prompts *)
(* chose: no step is taken for another cell, no release archive is         *)
(* created, and a run that reaches the build without a failing invocation  *)
(* enters buildV8 for that cell and for no other.                          *)
C12_SingleCellProcessesChosenCell ==
    ~buildAll =>
        /\ \A j \in Idx : log[j].cell \in {NoCell, getV8OutPath(args)}
        /\ \A j \in Idx : ~IsRelease(log[j])
        /\ ~HasReleaseArchive
        /\ ( /\ RunEnded
             /\ NoInvocationFailed
             /\ \E j \in Idx : log[j].stage = "matrix" )
           => EnteredCells = <<getV8OutPath(args)>>


(* The staging paths of all cells of the host. *)
AllStagedPaths(h) ==
    {StagedPath(h, cpu, dbg) : cpu \in {S_x64, S_x86}, dbg \in BOOLEAN}

(* The staging path of the cell of the args object. *)
CellStagedPath ==
    StagedPath(host, StripQuotes(args.target_cpu), args.is_debug)

(* C13: a staged artifact is never deleted without being replaced: no step *)
(* of the run, whether buildV8 succeeds or fails, takes away a file that   *)
(* exists at a cell's staging path, and the staging paths of the cells     *)
(* other than the one being built are left as they are.                    *)
C13_StagedArtifactNeverLost ==
    [][\A sp \in AllStagedPaths(host) :
           /\ sp \in fs => sp \in fs'
           /\ sp # CellStagedPath => (sp \in fs <=> sp \in fs')]_vars

(* C13's case: a file was staged for x64 debug, ninja exited with a        *)
(* nonzero code without producing the artifact, buildV8 has failed in its  *)
(* copy step, and the staged file is still there.                          *)
C13_Witness ==
    /\ StagedPath(host, S_x64, TRUE) \in fs
    /\ buildPath(host, CellOrder[1]) \notin fs
    /\ \E i \in Idx : log[i].ev = "exit" /\ log[i].cmd = "ninja" /\ log[i].code = 1
    /\ Len(log) > 0
    /\ log[Len(log)].ev = "throw"
    /\ log[Len(log)].cell = CellOrder[1]
    /\ pc = "rejected"

----------------------------------------------------------------------------
(* getV8OutPath, line 155, applied to arbitrary args objects. *)

(* The longest target_cpu string tried, beyond the four the script uses. *)
MaxCpuLen ==
    3

(* target_cpu values: the bare and the quoted architecture names and every *)
(* short string of letters and double quotes.                              *)
CpuStrings ==
    {S_x64, S_x86, Quoted(S_x64), Quoted(S_x86)}
    \cup UNION {[1..n -> {QUOTE, "x"}] : n \in 0..MaxCpuLen}

OutPathInputs ==
    {MakeArgs(dbg, cpu, FALSE) : dbg \in BOOLEAN, cpu \in CpuStrings}

(* The parts of the state a pure function does not touch. *)
Quiescent ==
    /\ host = S_linux
    /\ fs = {}
    /\ promise = "none"
    /\ children = {}
    /\ buildAll = FALSE
    /\ cellNo = 0
    /\ req = "idle"
    /\ zip = "absent"
    /\ rs = "idle"
    /\ extract = "idle"

OutPathInit ==
    /\ Quiescent
    /\ pc = "op_call"
    /\ args \in OutPathInputs
    /\ outPath = <<>>
    /\ log = <<>>
    /\ versionsFile = <<>>
    /\ version = <<>>

(* getV8OutPath(args), as at lines 259-277: the call and its result. *)
GetV8OutPathCall ==
    /\ pc = "op_call"
    /\ outPath' = getV8OutPath(args)
    /\ log' = Append(log, [args |-> args, result |-> outPath'])
    /\ pc' = IF log = <<>> THEN "op_args" ELSE "op_done"
    /\ UNCHANGED <<versionsFile, version,
                   host, fs, promise, children, buildAll, args, cellNo,
                   req, zip, rs, extract>>

(* The args object is changed before the next call. *)
OutPathNextArgs ==
    /\ pc = "op_args"
    /\ args' \in OutPathInputs
    /\ pc' = "op_call"
    /\ UNCHANGED <<versionsFile, version,
                   host, fs, promise, children, log, buildAll, cellNo, outPath,
                   req, zip, rs, extract>>

OutPathNext ==
    \/ GetV8OutPathCall
    \/ OutPathNextArgs

SpecOutPath ==
    OutPathInit /\ [][OutPathNext]_vars

RECURSIVE WithoutQuotes(_)
(* The string with its double quotes left out, character by character. *)
WithoutQuotes(s) ==
    IF s = <<>> THEN <<>>
    ELSE IF Head(s) = QUOTE THEN WithoutQuotes(Tail(s))
    ELSE <<Head(s)>> \o WithoutQuotes(Tail(s))

(* C14: getV8OutPath returns "out.gn/" followed by the architecture with   *)
(* all double quotes stripped, "." and "debug" or "release" by the debug   *)
(* flag; two calls return the same directory exactly when they are for the *)
(* same cell: the same architecture, quoted or not, and the same build     *)
(* type.                                                                   *)
C14_OutPathOfCell ==
    /\ \A i \in Idx :
           log[i].result =
               <<"o", "u", "t", ".", "g", "n", "/">>
               \o WithoutQuotes(log[i].args.target_cpu)
               \o (IF log[i].args.is_debug
                   THEN <<".", "d", "e", "b", "u", "g">>
                   ELSE <<".", "r", "e", "l", "e", "a", "s", "e">>)
    /\ \A i \in Idx : \A j \in Idx :
           (log[i].result = log[j].result)
           <=> /\ WithoutQuotes(log[i].args.target_cpu)
                      = WithoutQuotes(log[j].args.target_cpu)
               /\ log[i].args.is_debug = log[j].args.is_debug

(* C14's case: the quoted x64 debug cell and the quoted x86 release cell   *)
(* have been mapped to two directories.                                    *)
C14_Witness ==
    /\ Len(log) = 2
    /\ log[1].args.target_cpu = Quoted(S_x64)
    /\ log[1].args.is_debug
    /\ log[2].args.target_cpu = Quoted(S_x86)
    /\ ~log[2].args.is_debug
    /\ log[1].result # log[2].result
    /\ outPath = log[2].result

----------------------------------------------------------------------------
(* The version extraction, lines 283-299. *)

(* "V8_MAJOR_VERSION" *)
S_V8_MAJOR_VERSION ==
    <<"V", "8", "_", "M", "A", "J", "O", "R", "_", "V", "E", "R", "S",
      "I", "O", "N">>

(* "V8_MINOR_VERSION" *)
S_V8_MINOR_VERSION ==
    <<"V", "8", "_", "M", "I", "N", "O", "R", "_", "V", "E", "R", "S",
      "I", "O", "N">>

(* "V8_BUILD_NUMBER" *)
S_V8_BUILD_NUMBER ==
    <<"V", "8", "_", "B", "U", "I", "L", "D", "_", "N", "U", "M", "B",
      "E", "R">>

(* "V8_PATCH_LEVEL" *)
S_V8_PATCH_LEVEL ==
    <<"V", "8", "_", "P", "A", "T", "C", "H", "_", "L", "E", "V", "E",
      "L">>

(* Lines a header may hold: the four definitions, a second definition of *)
(* the major version, a line that names no identifier as a token of its  *)
(* own, and a line that names two.                                       *)
(* #define V8_MAJOR_VERSION 9 *)
L_major ==
    <<"#", "d", "e", "f", "i", "n", "e", " ", "V", "8", "_", "M", "A",
      "J", "O", "R", "_", "V", "E", "R", "S", "I", "O", "N", " ", "9">>

(* #define V8_MINOR_VERSION 4 *)
L_minor ==
    <<"#", "d", "e", "f", "i", "n", "e", " ", "V", "8", "_", "M", "I",
      "N", "O", "R", "_", "V", "E", "R", "S", "I", "O", "N", " ", "4">>

(* #define V8_BUILD_NUMBER 1 *)
L_build ==
    <<"#", "d", "e", "f", "i", "n", "e", " ", "V", "8", "_", "B", "U",
      "I", "L", "D", "_", "N", "U", "M", "B", "E", "R", " ", "1">>

(* #define V8_PATCH_LEVEL 7 *)
L_patch ==
    <<"#", "d", "e", "f", "i", "n", "e", " ", "V", "8", "_", "P", "A",
      "T", "C", "H", "_", "L", "E", "V", "E", "L", " ", "7">>

(* #define V8_MAJOR_VERSION 8 *)
L_major_again ==
    <<"#", "d", "e", "f", "i", "n", "e", " ", "V", "8", "_", "M", "A",
      "J", "O", "R", "_", "V", "E", "R", "S", "I", "O", "N", " ", "8">>

(* // V8_MAJOR_VERSION.V8_MINOR_VERSION *)
L_comment ==
    <<"/", "/", " ", "V", "8", "_", "M", "A", "J", "O", "R", "_", "V",
      "E", "R", "S", "I", "O", "N", ".", "V", "8", "_", "M", "I", "N",
      "O", "R", "_", "V", "E", "R", "S", "I", "O", "N">>

(* #if V8_MAJOR_VERSION < V8_MINOR_VERSION *)
L_compare ==
    <<"#", "i", "f", " ", "V", "8", "_", "M", "A", "J", "O", "R", "_",
      "V", "E", "R", "S", "I", "O", "N", " ", "<", " ", "V", "8", "_",
      "M", "I", "N", "O", "R", "_", "V", "E", "R", "S", "I", "O", "N">>

targets ==
    <<S_V8_MAJOR_VERSION, S_V8_MINOR_VERSION, S_V8_BUILD_NUMBER, S_V8_PATCH_LEVEL>>

(* let foundTargets = [0, 0, 0, 0]: join prints each 0 as "0". *)
foundTargets ==
    <<<<"0">>, <<"0">>, <<"0">>, <<"0">>>>

RECURSIVE split(_, _)
(* String.prototype.split on a one-character separator: the pieces        *)
(* between the separators, empty pieces included.                          *)
split(s, sep) ==
    IF \A i \in 1..Len(s) : s[i] # sep THEN <<s>>
    ELSE LET k == CHOOSE i \in 1..Len(s) :
                      s[i] = sep /\ \A j \in 1..(i - 1) : s[j] # sep
         IN  <<SubSeq(s, 1, k - 1)>> \o split(SubSeq(s, k + 1, Len(s)), sep)

(* Array.prototype.includes *)
includes(arr, x) ==
    \E i \in 1..Len(arr) : arr[i] = x

(* String.prototype.indexOf: the 0-based position of the first occurrence  *)
(* of f in s, -1 when there is none.                                       *)
indexOf(s, f) ==
    LET at == {i \in 0..(Len(s) - Len(f)) : SubSeq(s, i + 1, i + Len(f)) = f}
    IN  IF at = {} THEN -1 ELSE CHOOSE i \in at : \A j \in at : i <= j

(* String.prototype.substring(start, s.length) for start >= 0 *)
substring(s, start) ==
    IF start >= Len(s) THEN <<>> ELSE SubSeq(s, start + 1, Len(s))

(* targets.indexOf(targets.find(target => s.split(" ").includes(target))), *)
(* 1-based; 0 when find returns undefined.                                 *)
FoundIndex(s) ==
    LET hit == {n \in 1..Len(targets) : includes(split(s, " "), targets[n])}
    IN  IF hit = {} THEN 0 ELSE CHOOSE n \in hit : \A m \in hit : n <= m

(* As ValueStart, had the separator behind the identifier not been         *)
(* skipped.                                                                *)
ValueStartAtSeparator(s, f) ==
    indexOf(s, f) + Len(f)

(* s.indexOf(f) + f.length + 1, line 295 *)
ValueStart(s, f) ==
    indexOf(s, f) + Len(f) + 1

(* The callback of filter, lines 290-297, on one line. *)
ScanLine(found, s) ==
    LET n == FoundIndex(s)
    IN  IF n = 0 THEN found
        ELSE [found EXCEPT ![n] = substring(s, ValueStart(s, targets[n]))]

RECURSIVE ScanLines(_, _)
(* The lines of the file in order, lines 289-297. *)
ScanLines(found, lines) ==
    IF lines = <<>> THEN found
    ELSE ScanLines(ScanLine(found, Head(lines)), Tail(lines))

RECURSIVE join(_, _)
(* Array.prototype.join *)
join(arr, sep) ==
    IF arr = <<>> THEN <<>>
    ELSE IF Len(arr) = 1 THEN arr[1]
    ELSE arr[1] \o <<sep>> \o join(Tail(arr), sep)

(* const version = foundTargets.join("."), line 299 *)
VersionOf(lines) ==
    join(ScanLines(foundTargets, lines), ".")

(* The longest header tried, in lines. *)
MaxLines ==
    4

HeaderLines ==
    {L_major, L_minor, L_build, L_patch, L_major_again, L_comment, L_compare}

VersionFiles ==
    UNION {[1..n -> HeaderLines] : n \in 0..MaxLines}

(* The header has been read (line 289). *)
VersionInit ==
    /\ Quiescent
    /\ pc = "version"
    /\ args = MakeArgs(FALSE, Quoted(S_x64), FALSE)
    /\ outPath = <<>>
    /\ log = <<>>
    /\ versionsFile \in VersionFiles
    /\ version = <<>>

(* Lines 289-299 *)
ExtractVersion ==
    /\ pc = "version"
    /\ version' = VersionOf(versionsFile)
    /\ pc' = "package"
    /\ log' = Append(log, Ev("version", "join", "version", NoCell, 0))
    /\ UNCHANGED <<versionsFile, host, fs, promise, children, buildAll, args,
                   cellNo, outPath, req, zip, rs, extract>>

VersionNext ==
    ExtractVersion

SpecVersion ==
    VersionInit /\ [][VersionNext]_vars


(* The line contains the n-th identifier as a space-separated token. *)
NamesTarget(line, n) ==
    \E i \in 1..Len(line) :
        LET j == i + Len(targets[n]) - 1
        IN  /\ j <= Len(line)
            /\ SubSeq(line, i, j) = targets[n]
            /\ (i = 1 \/ line[i - 1] = " ")
            /\ (j = Len(line) \/ line[j + 1] = " ")

(* What follows the identifier on the line: the rest of the line behind    *)
(* the identifier's first occurrence and the character after it.           *)
RestAfter(line, n) ==
    LET f == targets[n]
        i == CHOOSE k \in 1..Len(line) :
                 /\ k + Len(f) - 1 <= Len(line)
                 /\ SubSeq(line, k, k + Len(f) - 1) = f
                 /\ \A m \in 1..(k - 1) : SubSeq(line, m, m + Len(f) - 1) # f
    IN  [x \in 1..(IF Len(line) > i + Len(f) THEN Len(line) - i - Len(f) ELSE 0)
            |-> line[i + Len(f) + x]]

(* The values a component may take by the lines that name its identifier:  *)
(* "0" when none does.                                                     *)
ComponentValues(lines, n) ==
    IF \A i \in 1..Len(lines) : ~NamesTarget(lines[i], n)
    THEN {<<"0">>}
    ELSE {RestAfter(lines[i], n) : i \in {k \in 1..Len(lines) : NamesTarget(lines[k], n)}}

(* The lines with two neighbours exchanged. *)
Exchanged(lines, i) ==
    [k \in 1..Len(lines) |->
        IF k = i THEN lines[i + 1] ELSE IF k = i + 1 THEN lines[i] ELSE lines[k]]

(* The lines with one left out. *)
LeftOut(lines, i) ==
    SubSeq(lines, 1, i - 1) \o SubSeq(lines, i + 1, Len(lines))

(* The version is made of one value per component, it stays the same when  *)
(* lines are exchanged, and when a line naming no identifier is left out.  *)
VersionAsStated ==
    /\ \E a \in ComponentValues(versionsFile, 1), b \in ComponentValues(versionsFile, 2),
          c \in ComponentValues(versionsFile, 3), d \in ComponentValues(versionsFile, 4) :
           version = a \o <<".">> \o b \o <<".">> \o c \o <<".">> \o d
    /\ \A i \in 1..(Len(versionsFile) - 1) :
           VersionOf(Exchanged(versionsFile, i)) = version
    /\ \A i \in 1..Len(versionsFile) :
           (\A n \in 1..Len(targets) : ~NamesTarget(versionsFile[i], n)) =>
               VersionOf(LeftOut(versionsFile, i)) = version

(* Every identifier is named by at most one line, and no line names two. *)
DefinedOnce ==
    /\ \A n \in 1..Len(targets) :
           Cardinality({i \in 1..Len(versionsFile) : NamesTarget(versionsFile[i], n)}) <= 1
    /\ \A i \in 1..Len(versionsFile) :
           Cardinality({n \in 1..Len(targets) : NamesTarget(versionsFile[i], n)}) <= 1

(* C15 as stated: for any sequence of lines the version is the four        *)
(* components joined by ".", each the value following its identifier on a  *)
(* line that contains it as a space-separated token and 0 when no line     *)
(* does, independent of the order of the lines and of unrelated lines.     *)
C15_VersionOfAnyLines ==
    pc = "package" => VersionAsStated

(* C15: for any sequence of lines in which every identifier is named as a  *)
(* space-separated token by at most one line and no line names two, the    *)
(* version is the four components joined by ".", each the value following  *)
(* its identifier on the line that names it and 0 when no line does,       *)
(* independent of the order of the lines and of unrelated lines.           *)
C15_VersionOfLinesDefinedOnce ==
    (pc = "package" /\ DefinedOnce) => VersionAsStated

(* C15's case: patch level, an unrelated line, major version and build     *)
(* number, in this order, give 9.0.1.7.                                    *)
C15_Witness ==
    /\ pc = "package"
    /\ versionsFile = <<L_patch, L_comment, L_major, L_build>>
    /\ DefinedOnce
    /\ version = <<"9", ".", "0", ".", "1", ".", "7">>

----------------------------------------------------------------------------
(* buildV8(outPath, args), lines 157-181, called with any configuration. *)

(* The args objects buildV8 may be given. *)
BuildConfigs ==
    {[MakeArgs(dbg, Quoted(cpu), clang)
          EXCEPT !.symbol_level = lvl, !.v8_monolithic = mono] :
        dbg \in BOOLEAN, cpu \in {S_x64, S_x86}, clang \in BOOLEAN,
        lvl \in {0, 2}, mono \in BOOLEAN}

(* The disk when buildV8 is called: toolchain, sources, layout and headers *)
(* are there; the artifact of the cell and a file staged for it may be.    *)
BuildDisks(h, a) ==
    {{paths.thirdParty, paths.depot_tools, paths.v8, paths.v8Src, v8SrcInclude,
      paths.buildIncludes} \cup LayoutDirs \cup art \cup staged :
        art \in SUBSET {buildPath(h, getV8OutPath(a))},
        staged \in SUBSET {StagedPath(h, StripQuotes(a.target_cpu), a.is_debug)}}

BuildInit ==
    /\ host \in Platforms
    /\ args \in BuildConfigs
    /\ fs \in BuildDisks(host, args)
    /\ outPath = getV8OutPath(args)
    /\ pc = "bv_enter"
    /\ promise = "none"
    /\ children = {}
    /\ log = <<>>
    /\ buildAll = TRUE
    /\ cellNo = 1
    /\ req = "idle"
    /\ zip = "absent"
    /\ rs = "idle"
    /\ extract = "idle"
    /\ versionsFile = <<>>
    /\ version = <<>>

BuildNext ==
    \/ BuildV8Enter
    \/ BuildV8Gen
    \/ BuildV8Ninja
    \/ BuildV8Copy
    \/ ChildExit
    \/ ChildError

SpecBuild ==
    BuildInit /\ [][BuildNext]_vars

(* The flag string of a gn gen invocation: what stands between `--args="`  *)
(* and the closing double quote of its third argument.                     *)
FlagString(c) ==
    SubSeq(c.argv[3], Len(S_args_open) + 1, Len(c.argv[3]) - 1)

(* The string begins with the prefix. *)
StartsWith(s, prefix) ==
    /\ Len(s) >= Len(prefix)
    /\ SubSeq(s, 1, Len(prefix)) = prefix

(* The string with the backslashes that stand before a double quote taken  *)
(* out.                                                                    *)
Unescaped(s) ==
    LET keep == {i \in 1..Len(s) :
                    ~(s[i] = "\\" /\ i < Len(s) /\ s[i + 1] = QUOTE)}
        nth(k) == CHOOSE i \in keep : Cardinality({j \in keep : j < i}) = k - 1
    IN  [k \in 1..Cardinality(keep) |-> s[nth(k)]]

(* C16: the flag string passed to gn gen holds exactly one key=value pair  *)
(* for every key of the configuration, the pairs are separated by single   *)
(* spaces, the string has no leading and no trailing space, and every      *)
(* double quote in it is preceded by a backslash.                          *)
C16_FlagStringWellFormed ==
    \A c \in children :
        c.cmd = "gn gen" =>
            LET F == FlagString(c)
                pairs == split(F, " ")
                keys == Entries(args)
            IN  /\ StartsWith(c.argv[3], S_args_open)
                /\ c.argv[3][Len(c.argv[3])] = QUOTE
                /\ F # <<>>
                /\ F[1] # " "
                /\ F[Len(F)] # " "
                /\ \A i \in 1..(Len(F) - 1) : ~(F[i] = " " /\ F[i + 1] = " ")
                /\ \A i \in 1..Len(F) :
                       F[i] = QUOTE => (i > 1 /\ F[i - 1] = "\\")
                /\ Len(pairs) = Cardinality(DOMAIN args)
                /\ \A n \in 1..Len(keys) :
                       LET mine == {i \in 1..Len(pairs) :
                                       StartsWith(pairs[i], keys[n][1] \o <<"=">>)}
                       IN  /\ Cardinality(mine) = 1
                           /\ \A i \in mine :
                                  Unescaped(SubSeq(pairs[i], Len(keys[n][1]) + 2,
                                                   Len(pairs[i])))
                                      = keys[n][2]

(* C16's case: gn gen is in flight for the x86 debug cell built with       *)
(* clang, with the flag string written out.                                *)
C16_Witness ==
    \E c \in children :
        /\ c.cmd = "gn gen"
        /\ args.target_cpu = Quoted(S_x86)
        /\ c.argv[3] =

            <<"-", "-", "a", "r", "g", "s", "=", "\"", "i", "s", "_",
              "d", "e", "b", "u", "g", "=", "t", "r", "u", "e", " ",
              "t", "a", "r", "g", "e", "t", "_", "c", "p", "u", "=",
              "\\", "\"", "x", "8", "6", "\\", "\"", " ", "v", "8",
              "_", "t", "a", "r", "g", "e", "t", "_", "c", "p", "u",
              "=", "\\", "\"", "x", "8", "6", "\\", "\"", " ", "i",
              "s", "_", "c", "o", "m", "p", "o", "n", "e", "n", "t",
              "_", "b", "u", "i", "l", "d", "=", "f", "a", "l", "s",
              "e", " ", "v", "8", "_", "s", "t", "a", "t", "i", "c",
              "_", "l", "i", "b", "r", "a", "r", "y", "=", "t", "r",
              "u", "e", " ", "v", "8", "_", "m", "o", "n", "o", "l",
              "i", "t", "h", "i", "c", "=", "t", "r", "u", "e", " ",
              "v", "8", "_", "u", "s", "e", "_", "e", "x", "t", "e",
              "r", "n", "a", "l", "_", "s", "t", "a", "r", "t", "u",
              "p", "_", "d", "a", "t", "a", "=", "f", "a", "l", "s",
              "e", " ", "v", "8", "_", "e", "n", "a", "b", "l", "e",
              "_", "t", "e", "s", "t", "_", "f", "e", "a", "t", "u",
              "r", "e", "s", "=", "f", "a", "l", "s", "e", " ", "v",
              "8", "_", "e", "n", "a", "b", "l", "e", "_", "i", "1",
              "8", "n", "_", "s", "u", "p", "p", "o", "r", "t", "=",
              "f", "a", "l", "s", "e", " ", "t", "r", "e", "a", "t",
              "_", "w", "a", "r", "n", "i", "n", "g", "s", "_", "a",
              "s", "_", "e", "r", "r", "o", "r", "s", "=", "f", "a",
              "l", "s", "e", " ", "s", "y", "m", "b", "o", "l", "_",
              "l", "e", "v", "e", "l", "=", "2", " ", "v", "8", "_",
              "u", "s", "e", "_", "s", "n", "a", "p", "s", "h", "o",
              "t", "=", "f", "a", "l", "s", "e", " ", "i", "s", "_",
              "c", "l", "a", "n", "g", "=", "t", "r", "u", "e", " ",
              "u", "s", "e", "_", "s", "y", "s", "r", "o", "o", "t",
              "=", "f", "a", "l", "s", "e", " ", "u", "s", "e", "_",
              "c", "u", "s", "t", "o", "m", "_", "l", "i", "b", "c",
              "x", "x", "=", "f", "a", "l", "s", "e", "\"">>


(* C17: the win32 bootstrap is strictly ordered download, extract, delete: *)
(* the extraction starts only when the archive has been written to disk    *)
(* completely, and the archive is deleted, and a later stage takes a step, *)
(* only after the extraction has finished.                                 *)
C17_DownloadExtractDelete ==
    /\ \A i \in Idx :
           log[i].ev = "unzip" => log[i].code = 1
    /\ \A i \in Idx :
           log[i].ev = "unlink" =>
               \E k \in 1..(i - 1) : log[k].ev = "extracted"
    /\ \A i \in Idx : \A j \in Idx :
           (log[i].ev = "unzip" /\ j > i /\ log[j].stage # "bootstrap") =>
               \E k \in (i + 1)..(j - 1) : log[k].ev = "extracted"


(* Every gn gen and ninja invocation in flight is for a cell whose         *)
(* configuration is specialized, and the flag string of gn gen carries the *)
(* four specialized pairs.                                                 *)
InvocationsSpecialized ==
    \A c \in children :
        c.cmd \in {"gn gen", "ninja"} =>
            \E arch \in {S_x64, S_x86}, dbg \in BOOLEAN :
                /\ c.cell = S_out_gn \o <<SLASH>> \o arch \o <<".">>
                                \o (IF dbg THEN S_debug ELSE S_release)
                /\ args.target_cpu = <<QUOTE>> \o arch \o <<QUOTE>>
                /\ args.v8_target_cpu = <<QUOTE>> \o arch \o <<QUOTE>>
                /\ args.is_debug = dbg
                /\ args.symbol_level = (IF dbg THEN 2 ELSE 0)
                /\ c.cmd = "gn gen" =>
                       LET pairs == split(FlagString(c), " ")
                           q == <<"\\", QUOTE>>
                       IN  /\ includes(pairs, <<"t", "a", "r", "g", "e", "t", "_", "c", "p", "u", "=">>
                                              \o q \o arch \o q)
                           /\ includes(pairs, <<"v", "8", "_", "t", "a", "r", "g", "e", "t", "_",
                                                "c", "p", "u", "=">> \o q \o arch \o q)
                           /\ includes(pairs, <<"i", "s", "_", "d", "e", "b", "u", "g", "=">>
                                              \o (IF dbg THEN S_true ELSE S_false))
                           /\ includes(pairs, <<"s", "y", "m", "b", "o", "l", "_", "l", "e", "v",
                                                "e", "l", "=">> \o (IF dbg THEN <<"2">> ELSE <<"0">>))

(* The configuration the run holds when it turns to the build of a cell    *)
(* (the buildV8 call of line 315 or of lines 259-277) and while buildV8    *)
(* runs for it.                                                            *)
CellConfigurationSpecialized ==
    pc \in {"single", "bv_enter", "bv_gen", "bv_ninja"} =>
        /\ \E arch \in {S_x64, S_x86} :
               /\ args.target_cpu = <<QUOTE>> \o arch \o <<QUOTE>>
               /\ args.v8_target_cpu = <<QUOTE>> \o arch \o <<QUOTE>>
        /\ args.symbol_level = (IF args.is_debug THEN 2 ELSE 0)

GenThenNinja ==
    /\ \A c \in children :
           /\ c.cmd = "gn gen" =>
                  /\ c.argv[1] = <<"g", "e", "n">>
                  /\ c.argv[2] = c.cell
           /\ c.cmd = "ninja" =>
                  /\ c.argv[1] = <<"-", "C">>
                  /\ c.argv[2] = c.cell
                  /\ c.argv[3] = (IF args.v8_monolithic
                                  THEN <<"v", "8", "_", "m", "o", "n", "o", "l", "i", "t", "h">>
                                  ELSE <<"v", "8">>)
    /\ \A j \in Idx :
           (IsIssue(log[j]) /\ log[j].cmd = "ninja") =>
               \E i \in 1..(j - 1) :
                   /\ log[i].ev = "exit"
                   /\ log[i].cmd = "gn gen"
                   /\ log[i].cell = log[j].cell

(* The copy of a cell that was entered without its artifact comes after    *)
(* the exit of the cell's ninja.                                           *)
CopyAfterNinja ==
    \A e \in Idx : \A j \in Idx :
        ( /\ log[e].ev = "enter" /\ log[e].code = 0
          /\ IsArtifactCopy(log[j]) /\ log[j].cell = log[e].cell )
        => \E i \in (e + 1)..(j - 1) :
               /\ log[i].ev = "exit"
               /\ log[i].cmd = "ninja"
               /\ log[i].cell = log[e].cell

(* C19: within a cell whose artifact is absent the steps occur in the      *)
(* order gn gen with the cell's output directory, ninja -C on the same     *)
(* directory, then the copy: ninja starts only after gn gen has exited,    *)
(* the copy only after ninja has exited, ninja targets v8_monolith when    *)
(* the monolithic flag is set and v8 otherwise, and a cell whose gn gen    *)
(* and ninja have exited with code 0 is copied.                            *)
C19_GenNinjaCopy ==
    /\ GenThenNinja
    /\ CopyAfterNinja
    /\ \A e \in Idx :
           ( /\ log[e].ev = "enter" /\ log[e].code = 0
             /\ RunEnded
             /\ NoInvocationFailed )
           => \E j \in (e + 1)..Len(log) :
                  IsArtifactCopy(log[j]) /\ log[j].cell = log[e].cell

----------------------------------------------------------------------------
(* genLibPaths, lines 53-72, on any workspace, run after run. *)

(* How many times the script is started on the same workspace. *)
MaxRuns ==
    2

(* What may exist below build/<os>/<arch>: nothing, or the directory with  *)
(* any of its build type directories.                                      *)
PlatformDisks(o, p) ==
    {{}} \cup {{P(<<paths.build, o, p>>)} \cup ts :
                  ts \in SUBSET {P(<<paths.build, o, p, t>>) : t \in Range(buildTypes)}}

(* What may exist below build/<os>. *)
OsDisks(o) ==
    {{}} \cup {{P(<<paths.build, o>>)} \cup a \cup b :
                  a \in PlatformDisks(o, platforms[1]), b \in PlatformDisks(o, platforms[2])}

(* The layout directories that may exist: a directory implies the ones it  *)
(* lies in.                                                                *)
LayoutDisks ==
    {{}} \cup {{paths.build} \cup w \cup l \cup d :
                  w \in OsDisks(oss[1]), l \in OsDisks(oss[2]), d \in OsDisks(oss[3])}

(* Files that may lie in the directories of the disk: the copied headers   *)
(* and an artifact staged for linux x64 Debug.                             *)
LayoutContents(d) ==
    SUBSET {f \in {paths.buildIncludes, StagedPath(S_linux, S_x64, TRUE)} :
               dirname(f) \in d}

LayoutInit ==
    /\ host = S_linux
    /\ \E d \in LayoutDisks : \E c \in LayoutContents(d) : fs = d \cup c
    /\ pc = "genLibPaths"
    /\ promise = "none"
    /\ children = {}
    /\ log = <<>>
    /\ buildAll = FALSE
    /\ args = MakeArgs(FALSE, <<>>, FALSE)
    /\ cellNo = 0
    /\ outPath = <<>>
    /\ req = "idle"
    /\ zip = "absent"
    /\ rs = "idle"
    /\ extract = "idle"
    /\ versionsFile = <<>>
    /\ version = <<>>

(* The script is started again on the workspace the run before left. *)
RunAgain ==
    /\ pc = "prompts"
    /\ Len(log) < MaxRuns
    /\ pc' = "genLibPaths"
    /\ UNCHANGED <<versionsFile, version,
                   host, fs, promise, children, log, buildAll,
                   args, cellNo, outPath, req, zip, rs, extract>>

LayoutNext ==
    \/ genLibPaths
    \/ RunAgain

SpecLayout ==
    LayoutInit /\ [][LayoutNext]_vars

(* build/<os>/<arch>/<type> for the three systems, two architectures and   *)
(* two build types.                                                        *)
CellDirs ==
    {<<"b", "u", "i", "l", "d", "/">> \o o \o <<"/">> \o a \o <<"/">> \o t :
        o \in {<<"w", "i", "n", "3", "2">>, <<"l", "i", "n", "u", "x">>,
               <<"d", "a", "r", "w", "i", "n">>},
        a \in {<<"x", "8", "6">>, <<"x", "6", "4">>},
        t \in {<<"R", "e", "l", "e", "a", "s", "e">>, <<"D", "e", "b", "u", "g">>}}

(* C20: genLibPaths is idempotent: a run of it on a workspace where none,  *)
(* some or all of the layout directories exist raises no error, leaves     *)
(* every directory build/<os>/<arch>/<type> in existence, makes no         *)
(* directory twice and none that existed, and takes nothing away; on a     *)
(* complete layout it changes nothing.                                     *)
C20_LayoutIdempotent ==
    [][(pc = "genLibPaths" /\ pc' # "genLibPaths") =>
           /\ pc' = "prompts"
           /\ CellDirs \subseteq fs'
           /\ fs \subseteq fs'
           /\ log'[Len(log')].code = Cardinality(fs' \ fs)
           /\ \A f \in fs' \ fs : f \in CellDirs \/ \E c \in CellDirs : Inside(f, c)
           /\ (CellDirs \subseteq fs => fs' = fs)]_vars

(* C20's case: genLibPaths has run twice on a workspace that held a part   *)
(* of the layout and a staged artifact: the first run made the missing     *)
(* directories, the second made none, and the artifact is still there.     *)
C20_Witness ==
    /\ pc = "prompts"
    /\ Len(log) = 2
    /\ log[1].code > 0
    /\ log[1].code < Len(LayoutOrder)
    /\ log[2].code = 0
    /\ StagedPath(S_linux, S_x64, TRUE) \in fs
    /\ CellDirs \subseteq fs

=============================================================================
